---- MODULE Spec2Model ----
(***************************************************************************)
(* Model of ckanext/datavic_harvester/harvesters/_json.py:                 *)
(* DataVicDCATJSONHarvester.validate_config and the conversion sequence    *)
(* of DataVicDCATJSONHarvester._get_package_dict.                          *)
(*                                                                         *)
(* Python values are tagged records: [t |-> "absent"] is a missing key or  *)
(* None, [t |-> "val", v |-> x] a present value.  A raised exception is a  *)
(* result record with kind "raised".                                       *)
(***************************************************************************)
EXTENDS Integers, Sequences, FiniteSets, TLC

VARIABLES groupDb, vcConfig, vcOutcome, vcResult,
          harvestSource, dcat, pkgIn, conv,
          sgConfig, sgPre, sgPkg, sgCalls

vars == <<groupDb, vcConfig, vcOutcome, vcResult,
          harvestSource, dcat, pkgIn, conv,
          sgConfig, sgPre, sgPkg, sgCalls>>

vcVars == <<groupDb, vcConfig, vcOutcome, vcResult>>
convVars == <<harvestSource, dcat, pkgIn, conv>>
sgVars == <<sgConfig, sgPre, sgPkg, sgCalls>>

\* ------------------------------------------------------------------ bounds
\* longest 'default_groups' / 'default_group_dicts' list
MaxGroups == 2
\* longest description, in tokens
MaxNotes == 2
\* most entries of the source-derived 'extras' among the keys the code reads
MaxExtras == 1
\* longest pre-existing 'groups' list of a record
MaxPreGroups == 2
\* longest 'default_group_dicts' list of a stored harvest configuration
MaxStoredGroups == 1

\* ------------------------------------------------------------ plain values
Absent == [t |-> "absent"]
Val(x) == [t |-> "val", v |-> x]
Truthy(x) == x.t # "absent"

SeqsUpTo(S, n) == UNION {[1..k -> S] : k \in 0..n}

RECURSIVE SelectSeqBy(_, _)
\* a list comprehension [x for x in s if Keep[x]]
SelectSeqBy(s, Keep) ==
    IF s = <<>> THEN <<>>
    ELSE IF Keep[Head(s)] THEN <<Head(s)>> \o SelectSeqBy(Tail(s), Keep)
         ELSE SelectSeqBy(Tail(s), Keep)

\* --------------------------------------------------------------- the groups
\* what group_show returns: a full group dict
Group1 == [id |-> "g1", name |-> "n1", title |-> "Group One"]
Group2 == [id |-> "g2", name |-> "n2", title |-> "Group Two"]
AllGroups == {Group1, Group2}

\* elements a JSON 'default_groups' list can hold: strings and non-strings
StrRefs == {[t |-> "str", v |-> s] : s \in {"g1", "n1", "g2", "zz"}}
NonStrRefs == {[t |-> "num", v |-> "7"]}
Refs == StrRefs \cup NonStrRefs

\* the dict validate_config saves for a group, line 63
GroupDict(g) == [id |-> g.id, name |-> g.name]
GroupDicts == {GroupDict(g) : g \in AllGroups}

\* ------------------------------------------------- configuration (JSON text)
\* A configuration object, as json.loads yields it.  Each key is Absent or
\* present; 'default_groups' present is a list ([t |-> "list"]) or a
\* non-list JSON value.
DefaultGroupsValues ==
    {Absent, [t |-> "str", v |-> "g1"]}
        \cup {[t |-> "list", items |-> l] : l \in SeqsUpTo(Refs, MaxGroups)}

GroupDictsValues(n) ==
    {Absent} \cup {[t |-> "list", items |-> l] : l \in SeqsUpTo(GroupDicts, n)}

DefaultLicense == [id |-> "cc-by", title |-> "CC BY"]

\* A configuration string: the empty string, or a text in some layout that
\* is either not parseable (ok = FALSE) or the serialisation of obj.
EmptyConfig == [fmt |-> "empty"]
BadJson(f) == [fmt |-> f, ok |-> FALSE]
JsonText(f, o) == [fmt |-> f, ok |-> TRUE, obj |-> o]

\* json.loads: raises ValueError on the empty string and on malformed text
json_loads(config) ==
    IF config.fmt = "empty" \/ ~config.ok
    THEN [ok |-> FALSE, exc |-> "ValueError", msg |-> "json decode error"]
    ELSE [ok |-> TRUE, obj |-> config.obj]

\* json.dumps(config_obj, indent=1): the text is re-laid-out
json_dumps(o) == JsonText("indent1", o)

\* get_action('group_show') for one element of 'default_groups'.  A string is
\* looked up by id, then by name; nothing else is stored under a non-string,
\* so a non-string ends in NotFound or in a database error (nonStr).
group_show(db, ref, nonStr) ==
    IF ref.t = "str" /\ (\E g \in db : g.id = ref.v)
    THEN [found |-> TRUE, group |-> CHOOSE g \in db : g.id = ref.v]
    ELSE IF ref.t = "str" /\ (\E g \in db : g.name = ref.v)
    THEN [found |-> TRUE, group |-> CHOOSE g \in db : g.name = ref.v]
    ELSE IF ref.t = "str" THEN [found |-> FALSE, exc |-> "NotFound"]
    ELSE [found |-> FALSE, exc |-> nonStr]

RECURSIVE BuildGroupDicts_SkipMissing(_, _, _, _)
\* the loop with the failed lookup swallowed: the element is skipped
BuildGroupDicts_SkipMissing(refs, db, nonStr, acc) ==
    IF refs = <<>> THEN [ok |-> TRUE, dicts |-> acc]
    ELSE LET r == group_show(db, Head(refs), nonStr)
         IN IF r.found
            THEN BuildGroupDicts_SkipMissing(Tail(refs), db, nonStr,
                                             Append(acc, GroupDict(r.group)))
            ELSE BuildGroupDicts_SkipMissing(Tail(refs), db, nonStr, acc)

RECURSIVE BuildGroupDicts_StopAtMissing(_, _, _, _)
\* the loop with NotFound ending it (break) instead of raising
BuildGroupDicts_StopAtMissing(refs, db, nonStr, acc) ==
    IF refs = <<>> THEN [ok |-> TRUE, dicts |-> acc]
    ELSE LET r == group_show(db, Head(refs), nonStr)
         IN IF r.found
            THEN BuildGroupDicts_StopAtMissing(Tail(refs), db, nonStr,
                                               Append(acc, GroupDict(r.group)))
            ELSE IF r.exc = "NotFound"
            THEN [ok |-> TRUE, dicts |-> acc]
            ELSE [ok |-> FALSE, exc |-> r.exc, msg |-> "group_show failed"]

RECURSIVE BuildGroupDicts_Prepend(_, _, _, _)
\* the loop with insert(0, ...) instead of append
BuildGroupDicts_Prepend(refs, db, nonStr, acc) ==
    IF refs = <<>> THEN [ok |-> TRUE, dicts |-> acc]
    ELSE LET r == group_show(db, Head(refs), nonStr)
         IN IF r.found
            THEN BuildGroupDicts_Prepend(Tail(refs), db, nonStr,
                                         <<GroupDict(r.group)>> \o acc)
            ELSE IF r.exc = "NotFound"
            THEN [ok |-> FALSE, exc |-> "ValueError",
                  msg |-> "Default group not found"]
            ELSE [ok |-> FALSE, exc |-> r.exc, msg |-> "group_show failed"]

RECURSIVE BuildGroupDicts(_, _, _, _)
\* the loop of lines 58-65 over the remaining elements, acc being
\* config_obj['default_group_dicts'] so far
BuildGroupDicts(refs, db, nonStr, acc) ==
    IF refs = <<>> THEN [ok |-> TRUE, dicts |-> acc]
    ELSE LET r == group_show(db, Head(refs), nonStr)
         IN IF r.found
            THEN BuildGroupDicts(Tail(refs), db, nonStr,
                                 Append(acc, GroupDict(r.group)))
            ELSE IF r.exc = "NotFound"
            THEN [ok |-> FALSE, exc |-> "ValueError",
                  msg |-> "Default group not found"]
            ELSE [ok |-> FALSE, exc |-> r.exc, msg |-> "group_show failed"]

Raised(e, m) == [kind |-> "raised", exc |-> e, msg |-> m]
Returned(c) == [kind |-> "returned", config |-> c]

\* validate_config(config), lines 39-71
validate_config(config, db, nonStr) ==
    IF config.fmt = "empty" THEN Returned(config)
    ELSE LET parsed == json_loads(config) IN
      IF ~parsed.ok THEN Raised(parsed.exc, parsed.msg)
      ELSE LET o == parsed.obj IN
        IF o.default_groups.t = "absent" THEN Returned(config)
        ELSE IF o.default_groups.t # "list"
        THEN Raised("ValueError", "default_groups must be a *list* of group names/ids")
        ELSE IF o.default_groups.items # <<>> /\ o.default_groups.items[1].t # "str"
        THEN Raised("ValueError", "default_groups must be a list of group names/ids (i.e. strings)")
        ELSE LET b == BuildGroupDicts(o.default_groups.items, db, nonStr, <<>>) IN
          IF ~b.ok THEN Raised(b.exc, b.msg)
          ELSE Returned(json_dumps(
                 [o EXCEPT !.default_group_dicts = [t |-> "list", items |-> b.dicts]]))

\* configuration objects entered in the form
FormObjects ==
    {[default_groups |-> dg, default_group_dicts |-> dgd,
      default_full_metadata_url |-> Absent,
      full_metadata_url_pattern |-> Absent,
      default_license |-> lic] :
        dg \in DefaultGroupsValues,
        dgd \in {Absent, [t |-> "list", items |-> <<GroupDict(Group2)>>]},
        lic \in {Absent, Val(DefaultLicense)}}

FormConfigs ==
    {EmptyConfig} \cup {BadJson(f) : f \in {"compact", "indent1"}}
        \cup {JsonText(f, o) : f \in {"compact", "indent1"}, o \in FormObjects}

Pending == [kind |-> "pending"]

\* ------------------------------------------------------- the harvest source
\* lines 238-243: HarvestSource.get and json.loads of its config; any
\* failure leaves harvest_config = None
LoadHarvestConfig(hs) ==
    IF hs.t = "notfound" THEN [t |-> "none"]
    ELSE LET parsed == json_loads(hs.config)
         IN IF parsed.ok THEN [t |-> "obj", o |-> parsed.obj] ELSE [t |-> "none"]

\* ------------------------------------------------------------- descriptions
\* A description is a sequence of tokens: a word, a full stop, an HTML tag
\* that is not allowed, or the text 'default.description'.
Word == "w"
Stop == "."
Tag == "<p>"
DefaultDescription == "default.description"
TextTokens == {Word, Stop, Tag}

NotesTexts(n) == SeqsUpTo(TextTokens, n) \cup {<<DefaultDescription>>}

NoDescription == <<"No description has been entered for this dataset.">>
NoAbstract == <<"No abstract has been entered for this dataset.">>

\* soup.get_text(): the text without the markup
get_text(soup) == SelectSeqBy(soup, [x \in TextTokens \cup {DefaultDescription} |-> x # Tag])

\* bs4_helpers._unwrap_all_except(_remove_all_attrs_except_saving(soup), ['a', 'br'])
UnwrapAllExcept(soup) == SelectSeqBy(soup, [x \in TextTokens \cup {DefaultDescription} |-> x # Tag])

\* notes.index('.'), 0 when there is none (ValueError)
IndexOfStop(text) ==
    IF \E i \in 1..Len(text) : text[i] = Stop
    THEN CHOOSE i \in 1..Len(text) : text[i] = Stop /\ \A j \in 1..(i - 1) : text[j] # Stop
    ELSE 0

\* generate_extract(soup), lines 90-97: the first sentence; when index()
\* raises, the error is logged and notes still holds the whole text
generate_extract(soup) ==
    LET notes == get_text(soup)
        index == IndexOfStop(notes)
    IN IF index = 0 THEN notes ELSE SubSeq(notes, 1, index)

\* set_description_and_extract(package_dict, soup), lines 100-109
set_description_and_extract(pkg, soup) ==
    IF \E i \in 1..Len(pkg.notes) : pkg.notes[i] = DefaultDescription
    THEN [pkg EXCEPT !.notes = NoDescription, !.extract = Val(NoAbstract)]
    ELSE [pkg EXCEPT !.notes = UnwrapAllExcept(soup),
                     !.extract = Val(generate_extract(soup))]

\* ------------------------------------------------------------------- extras
RequiredKeys == {"personal_information", "access", "protective_marking",
                 "update_frequency", "organization_visibility", "workflow_status"}
ExtraKeys == RequiredKeys \cup {"full_metadata_url", "date_created_data_asset",
                                "date_modified_data_asset"}

\* [extra for extra in package_dict['extras'] if extra['key'] == key], as a
\* truth value
HasExtra(pkg, key) == key \in pkg.extras

UrlDefault == "https://default.example/metadata"
UrlDescription == "https://description.example/metadata"
UrlLanding == "https://landing.example/page"

\* bs4_helpers._extract_metadata_url(soup, pattern): a URL or None
ExtractResults == {Absent, Val(UrlDescription)}
\* bs4_helpers._fetch_update_frequency(url)
Frequencies == {"daily", "unknown"}

Ok(pkg) == [ok |-> TRUE, pkg |-> pkg, exc |-> "none"]
Fail(pkg, e) == [ok |-> FALSE, pkg |-> pkg, exc |-> e]

\* whether line 131 is reached
PatternConsulted(hc, pkg) ==
    /\ ~HasExtra(pkg, "full_metadata_url")
    /\ hc.t = "obj"
    /\ Truthy(hc.o.full_metadata_url_pattern)

\* set_full_metadata_url_and_update_frequency, lines 123-137; desc is what
\* _extract_metadata_url returns and freq what _fetch_update_frequency does
set_full_metadata_url_and_update_frequency(hc, pkg, desc, freq) ==
    IF HasExtra(pkg, "full_metadata_url")
    THEN Ok([pkg EXCEPT !.full_metadata_url = [t |-> "extras"]])
    ELSE IF hc.t = "none" THEN Fail(pkg, "TypeError")
    ELSE LET byDefault == hc.o.default_full_metadata_url
             found == Truthy(hc.o.full_metadata_url_pattern) /\ Truthy(desc)
             full_metadata_url == IF found THEN desc ELSE byDefault
             p1 == IF found THEN [pkg EXCEPT !.update_frequency = Val(freq)] ELSE pkg
         IN Ok(IF Truthy(full_metadata_url)
               THEN [p1 EXCEPT !.full_metadata_url = full_metadata_url]
               ELSE p1)

\* ---------------------------------------------------------------------- tags
Amp == "&"
ReplaceAmp(name) == [i \in 1..Len(name) |-> IF name[i] = Amp THEN "and" ELSE name[i]]

\* fix_erroneous_tags, lines 79-82
fix_erroneous_tags(pkg) ==
    [pkg EXCEPT !.tags = [i \in 1..Len(pkg.tags) |->
                             [name |-> ReplaceAmp(pkg.tags[i].name)]]]

\* -------------------------------------------------------------------- groups
GroupIds(gs) == {gs[i].id : i \in 1..Len(gs)}

\* set_default_group extending 'groups' with every default group, without
\* the test against existing_group_ids
set_default_group_NoFilter(hc, pkg) ==
    IF hc.t = "none" THEN Fail(pkg, "AttributeError")
    ELSE LET dgd == hc.o.default_group_dicts IN
      IF dgd.t = "list" /\ dgd.items # <<>>
      THEN LET groups == IF pkg.groups.t = "absent" THEN <<>> ELSE pkg.groups.items
           IN Ok([pkg EXCEPT !.category = Val(dgd.items[1].id),
                             !.groups = [t |-> "list", items |-> groups \o dgd.items]])
      ELSE Ok(pkg)

\* set_default_group, lines 147-158
set_default_group(hc, pkg) ==
    IF hc.t = "none" THEN Fail(pkg, "AttributeError")
    ELSE LET dgd == hc.o.default_group_dicts IN
      IF dgd.t = "list" /\ dgd.items # <<>>
      THEN LET groups == IF pkg.groups.t = "absent" THEN <<>> ELSE pkg.groups.items
               existing_group_ids == GroupIds(groups)
               added == SelectSeqBy(dgd.items,
                           [g \in GroupDicts |-> g.id \notin existing_group_ids])
           IN Ok([pkg EXCEPT !.category = Val(dgd.items[1].id),
                             !.groups = [t |-> "list", items |-> groups \o added]])
      ELSE Ok(pkg)

\* ------------------------------------------------------------ required fields
\* helpers.convert_date_to_isoformat
convert_date_to_isoformat(d) == <<"iso", d>>

\* a default with the test on the extras inverted
DefaultUnlessExtra_Inverted(pkg, key, default) ==
    IF ~HasExtra(pkg, key) THEN pkg ELSE [pkg EXCEPT ![key] = Val(default)]

\* one default of lines 161-189: set unless the extras carry the key
DefaultUnlessExtra(pkg, key, default) ==
    IF HasExtra(pkg, key) THEN pkg ELSE [pkg EXCEPT ![key] = Val(default)]

\* lines 204-208
SetLandingPage(dc, pkg) ==
    IF Truthy(dc.landingPage) /\ ~HasExtra(pkg, "full_metadata_url")
    THEN [pkg EXCEPT !.full_metadata_url = dc.landingPage]
    ELSE pkg

\* set_required_fields_defaults, lines 161-222
set_required_fields_defaults(hc, dc, pkg) ==
    LET p1 == DefaultUnlessExtra(pkg, "personal_information", "no")
        p2 == DefaultUnlessExtra(p1, "access", "yes")
        p3 == DefaultUnlessExtra(p2, "protective_marking", "official")
        p4 == DefaultUnlessExtra(p3, "update_frequency", "unknown")
        p5 == DefaultUnlessExtra(p4, "organization_visibility", "current")
        p6 == DefaultUnlessExtra(p5, "workflow_status", "draft")
        p7 == IF Truthy(dc.issued) /\ ~HasExtra(p6, "date_created_data_asset")
              THEN [p6 EXCEPT !.date_created_data_asset =
                                  Val(convert_date_to_isoformat(dc.issued.v))]
              ELSE p6
        p8 == IF Truthy(dc.modified) /\ ~HasExtra(p7, "date_modified_data_asset")
              THEN [p7 EXCEPT !.date_modified_data_asset =
                                  Val(convert_date_to_isoformat(dc.modified.v))]
              ELSE p7
        p9 == SetLandingPage(dc, p8)
        tagged(q) == [q EXCEPT !.tag_string =
                          IF Truthy(dc.keyword) /\ dc.keyword.v # <<>>
                          THEN dc.keyword.v ELSE <<>>]
    IN IF Truthy(p9.license_id) THEN Ok(tagged(p9))
       ELSE IF hc.t = "none" THEN Fail(p9, "TypeError")
       ELSE IF Truthy(hc.o.default_license)
       THEN Ok(tagged([p9 EXCEPT !.license_id = Val(hc.o.default_license.v.id),
                                 !.custom_licence_text = Val(hc.o.default_license.v.title)]))
       ELSE Ok(tagged(p9))

\* ------------------------------------------------------------ the conversion
\* converters.dcat_to_ckan, line 236, for the keys this module reads: the
\* description becomes 'notes', each keyword a tag
KeywordTags(dc) ==
    IF Truthy(dc.keyword) THEN [i \in 1..Len(dc.keyword.v) |-> [name |-> dc.keyword.v[i]]]
    ELSE <<>>

PreGroupDicts == GroupDicts \cup {[id |-> "g3", name |-> "n3"]}

NewPackage(notes, extras, tags, groups, license) ==
    [notes |-> notes, extract |-> Absent, extras |-> extras, tags |-> tags,
     groups |-> groups, category |-> Absent,
     personal_information |-> Absent, access |-> Absent,
     protective_marking |-> Absent, update_frequency |-> Absent,
     organization_visibility |-> Absent, workflow_status |-> Absent,
     date_created_data_asset |-> Absent, date_modified_data_asset |-> Absent,
     full_metadata_url |-> Absent, license_id |-> license,
     custom_licence_text |-> Absent, tag_string |-> <<>>]

Outcome(kind, step, exc, hc, pkg, desc, freq) ==
    [kind |-> kind, step |-> step, exc |-> exc, harvest_config |-> hc,
     pkg |-> pkg, extracted |-> desc, fetched |-> freq]

\* _get_package_dict, lines 232-259.  The record is mutated in place, so an
\* exception leaves it as the steps before left it.
get_package_dict(hs, dc, pkg0, desc, freq) ==
    LET hc == LoadHarvestConfig(hs)
        soup == pkg0.notes
        used == IF PatternConsulted(hc, pkg0) THEN desc ELSE Absent
        got == IF Truthy(used) THEN Val(freq) ELSE Absent
        a == set_description_and_extract(pkg0, soup)
        b == set_full_metadata_url_and_update_frequency(hc, a, desc, freq)
        c == fix_erroneous_tags(b.pkg)
        d == set_default_group(hc, c)
        e == set_required_fields_defaults(hc, dc, d.pkg)
    IN IF ~b.ok THEN Outcome("raised", "set_full_metadata_url_and_update_frequency",
                             b.exc, hc, b.pkg, used, got)
       ELSE IF ~d.ok THEN Outcome("raised", "set_default_group", d.exc, hc, d.pkg, used, got)
       ELSE IF ~e.ok THEN Outcome("raised", "set_required_fields_defaults",
                                  e.exc, hc, e.pkg, used, got)
       ELSE Outcome("returned", "done", "none", hc, e.pkg, used, got)

\* ------------------------------------------------------------------- inputs
\* most applications of set_default_group to one record
MaxCalls == 2

\* 'default_groups' as entered for the group dicts validate_config saved
RefsOf(dgd) ==
    IF dgd.t = "absent" THEN Absent
    ELSE [t |-> "list",
          items |-> [i \in 1..Len(dgd.items) |-> [t |-> "str", v |-> dgd.items[i].id]]]

\* configuration objects stored with a harvest source: the defaults for the
\* metadata URL and the license are configured together or not at all
HarvestObjects(n) ==
    {[default_groups |-> RefsOf(dgd), default_group_dicts |-> dgd,
      default_full_metadata_url |-> d.url,
      full_metadata_url_pattern |-> pat,
      default_license |-> d.lic] :
        dgd \in GroupDictsValues(n),
        d \in {[url |-> Absent, lic |-> Absent],
               [url |-> Val(UrlDefault), lic |-> Val(DefaultLicense)]},
        pat \in {Absent, Val("metadata")}}

HarvestSources ==
    {[t |-> "notfound"], [t |-> "source", config |-> EmptyConfig],
     [t |-> "source", config |-> BadJson("compact")]}
        \cup {[t |-> "source", config |-> JsonText("indent1", o)] :
                 o \in HarvestObjects(MaxStoredGroups)}

\* source records: the keys of the DCAT dict this module reads besides the
\* description
DcatDicts ==
    {[landingPage |-> lp, issued |-> d.issued, modified |-> d.modified,
      keyword |-> d.keyword] :
        lp \in {Absent, Val(UrlLanding)},
        d \in {[issued |-> Absent, modified |-> Absent, keyword |-> Absent],
               [issued |-> Val("2020-01-02"), modified |-> Val("2021-03-04"),
                keyword |-> Val(<< <<"a", Amp, "b">> >>)]}}

ExtrasSets == {x \in SUBSET ExtraKeys : Cardinality(x) <= MaxExtras}

\* what dcat_to_ckan hands to the conversion steps
ConvertedPackages(dc) ==
    {NewPackage(n, x, KeywordTags(dc), g.groups, g.license) :
        n \in NotesTexts(MaxNotes), x \in ExtrasSets,
        g \in {[groups |-> Absent, license |-> Absent],
               [groups |-> [t |-> "list", items |-> <<GroupDict(Group1)>>],
                license |-> Val("other-open")]}}

PreGroupsValues ==
    {Absent} \cup {[t |-> "list", items |-> l] : l \in SeqsUpTo(PreGroupDicts, MaxPreGroups)}

GroupPackages ==
    {[NewPackage(<<Word>>, {}, <<>>, g, Absent) EXCEPT !.category = c] :
        g \in PreGroupsValues, c \in {Absent, Val("g3")}}

GroupConfigs ==
    {[t |-> "obj", o |-> o] :
        o \in {h \in HarvestObjects(MaxGroups) : h.full_metadata_url_pattern = Absent}}

IdlePackage == NewPackage(<<>>, {}, <<>>, Absent, Absent)
IdleDcat == [landingPage |-> Absent, issued |-> Absent, modified |-> Absent,
             keyword |-> Absent]
NoConfig == [t |-> "none"]
PendingConv(pkg) == Outcome("pending", "start", "none", NoConfig, pkg, Absent, Absent)

\* -------------------------------------------------------------------- states
vcIdle ==
    /\ groupDb = {}
    /\ vcConfig = EmptyConfig
    /\ vcOutcome = "none"
    /\ vcResult = Pending

convIdle ==
    /\ harvestSource = [t |-> "notfound"]
    /\ dcat = IdleDcat
    /\ pkgIn = IdlePackage
    /\ conv = PendingConv(IdlePackage)

sgIdle ==
    /\ sgConfig = NoConfig
    /\ sgPre = IdlePackage
    /\ sgPkg = IdlePackage
    /\ sgCalls = 0

\* ---- validate_config on a configuration entered in the form
InitValidate ==
    /\ groupDb \in SUBSET AllGroups
    /\ vcConfig \in FormConfigs
    /\ vcOutcome = "none"
    /\ vcResult = Pending
    /\ convIdle /\ sgIdle

NonStrOutcomes == {"NotFound", "ProgrammingError"}

ValidateConfig ==
    /\ vcResult = Pending
    /\ \E nonStr \in NonStrOutcomes :
          /\ vcOutcome' = nonStr
          /\ vcResult' = validate_config(vcConfig, groupDb, nonStr)
    /\ UNCHANGED <<groupDb, vcConfig>>
    /\ UNCHANGED <<convVars, sgVars>>

NextValidate == ValidateConfig
SpecValidate == InitValidate /\ [][NextValidate]_vars

\* ---- _get_package_dict on one harvest object
InitConvert ==
    /\ harvestSource \in HarvestSources
    /\ dcat \in DcatDicts
    /\ pkgIn \in ConvertedPackages(dcat)
    /\ conv = PendingConv(pkgIn)
    /\ vcIdle /\ sgIdle

GetPackageDict ==
    /\ conv.kind = "pending"
    /\ \E desc \in ExtractResults, freq \in Frequencies :
          conv' = get_package_dict(harvestSource, dcat, pkgIn, desc, freq)
    /\ UNCHANGED <<harvestSource, dcat, pkgIn>>
    /\ UNCHANGED <<vcVars, sgVars>>

NextConvert == GetPackageDict
SpecConvert == InitConvert /\ [][NextConvert]_vars

\* ---- set_default_group applied to a record, and applied again
InitGroup ==
    /\ sgConfig \in GroupConfigs
    /\ sgPre \in GroupPackages
    /\ sgPkg = sgPre
    /\ sgCalls = 0
    /\ vcIdle /\ convIdle

SetDefaultGroup ==
    /\ sgCalls < MaxCalls
    /\ set_default_group(sgConfig, sgPkg).ok
    /\ sgPkg' = set_default_group(sgConfig, sgPkg).pkg
    /\ sgCalls' = sgCalls + 1
    /\ UNCHANGED <<sgConfig, sgPre>>
    /\ UNCHANGED <<vcVars, convVars>>

NextGroup == SetDefaultGroup
SpecGroup == InitGroup /\ [][NextGroup]_vars

Init == InitValidate \/ InitConvert \/ InitGroup
Next == NextValidate \/ NextConvert \/ NextGroup
Spec == Init /\ [][Next]_vars

\* =================================================================== claims
RequiredDefault ==
    [k \in RequiredKeys |->
        CASE k = "personal_information" -> "no"
          [] k = "access" -> "yes"
          [] k = "protective_marking" -> "official"
          [] k = "update_frequency" -> "unknown"
          [] k = "organization_visibility" -> "current"
          [] k = "workflow_status" -> "draft"]

DefaultsFilled(out, in) ==
    \A k \in RequiredKeys : HasExtra(in, k) \/ out[k] = Val(RequiredDefault[k])

\* C1: a record returned by _get_package_dict has each of the six required
\* fields: the source-derived extras carry it, or the record holds its
\* default ('no', 'yes', 'official', 'unknown', 'current', 'draft').
C1_RequiredFieldsPopulated ==
    conv.kind = "returned" => DefaultsFilled(conv.pkg, pkgIn)

C1_Witness ==
    /\ conv.kind = "returned"
    /\ HasExtra(pkgIn, "access")
    /\ conv.pkg.workflow_status = Val("draft")
    /\ Truthy(conv.extracted)

\* C2: with the harvest source missing or its config empty or unparseable,
\* _get_package_dict still runs every step and returns the record with the
\* required defaults filled in.
C2_ConfigOptional ==
    (conv.kind # "pending" /\ conv.harvest_config.t = "none")
        => (conv.kind = "returned" /\ DefaultsFilled(conv.pkg, pkgIn))

HasNonString(items) == \E i \in 1..Len(items) : items[i].t # "str"

Malformed(config) ==
    /\ config.fmt # "empty"
    /\ \/ ~config.ok
       \/ /\ config.ok
          /\ config.obj.default_groups.t \notin {"absent", "list"}
       \/ /\ config.ok
          /\ config.obj.default_groups.t = "list"
          /\ HasNonString(config.obj.default_groups.items)

LookupNotFoundAt(items, i) ==
    /\ \A j \in 1..(i - 1) : group_show(groupDb, items[j], vcOutcome).found
    /\ ~group_show(groupDb, items[i], vcOutcome).found
    /\ group_show(groupDb, items[i], vcOutcome).exc = "NotFound"

LoopEntered(config) ==
    /\ config.fmt # "empty" /\ config.ok
    /\ config.obj.default_groups.t = "list"
    /\ config.obj.default_groups.items # <<>>
    /\ config.obj.default_groups.items[1].t = "str"

\* C4: when group_show fails with NotFound for an element of
\* 'default_groups', at any position, validate_config raises ValueError
\* 'Default group not found' and returns no configuration string.
C4_GroupNotFoundRaises ==
    (vcResult # Pending /\ LoopEntered(vcConfig)) =>
        \A i \in 1..Len(vcConfig.obj.default_groups.items) :
            LookupNotFoundAt(vcConfig.obj.default_groups.items, i)
                => vcResult = Raised("ValueError", "Default group not found")

C4_Witness ==
    /\ vcResult # Pending /\ LoopEntered(vcConfig)
    /\ Len(vcConfig.obj.default_groups.items) = 2
    /\ group_show(groupDb, vcConfig.obj.default_groups.items[1], vcOutcome).found
    /\ LookupNotFoundAt(vcConfig.obj.default_groups.items, 2)
    /\ vcResult.kind = "raised"

NoStopIn(text) == \A i \in 1..Len(text) : text[i] # Stop

\* C5: when no first sentence can be found (the description has no '.'),
\* the failure is logged, the step returns normally and the record's
\* 'extract' is the placeholder 'No abstract has been entered for this
\* dataset.'.
C5_ExtractPlaceholder ==
    (conv.kind # "pending" /\ NoStopIn(get_text(pkgIn.notes)))
        => conv.pkg.extract = Val(NoAbstract)

\* C6: a successful validate_config of a configuration with 'default_groups'
\* returns JSON whose 'default_group_dicts' has one entry per element, in
\* order, holding the id and name group_show returned, every other key
\* unchanged; without 'default_groups' the input string is returned as is.
C6_GroupDictsBuilt ==
    vcResult.kind = "returned" =>
        IF vcConfig.fmt # "empty" /\ vcConfig.obj.default_groups.t # "absent"
        THEN LET in == vcConfig.obj
                 refs == in.default_groups.items
                 out == json_loads(vcResult.config)
             IN /\ out.ok
                /\ out.obj.default_group_dicts.t = "list"
                /\ Len(out.obj.default_group_dicts.items) = Len(refs)
                /\ \A i \in 1..Len(refs) :
                      LET r == group_show(groupDb, refs[i], vcOutcome)
                          d == out.obj.default_group_dicts.items[i]
                      IN r.found /\ d = [id |-> r.group.id, name |-> r.group.name]
                /\ out.obj.default_groups = in.default_groups
                /\ out.obj.default_full_metadata_url = in.default_full_metadata_url
                /\ out.obj.full_metadata_url_pattern = in.full_metadata_url_pattern
                /\ out.obj.default_license = in.default_license
        ELSE vcResult.config = vcConfig

C6_Witness ==
    /\ vcResult.kind = "returned"
    /\ vcConfig = JsonText("compact",
          [default_groups |-> [t |-> "list", items |->
                                  <<[t |-> "str", v |-> "g2"], [t |-> "str", v |-> "n1"]>>],
           default_group_dicts |-> Absent,
           default_full_metadata_url |-> Absent,
           full_metadata_url_pattern |-> Absent,
           default_license |-> Val(DefaultLicense)])
    /\ vcResult.config.fmt = "indent1"
    /\ vcResult.config.obj.default_group_dicts.items
          = <<[id |-> "g2", name |-> "n2"], [id |-> "g1", name |-> "n1"]>>

\* C7: when the source record has no update_frequency and a full metadata
\* URL is extracted from the description, the returned record's
\* 'update_frequency' is the value fetched from that page; it is 'unknown'
\* only when no URL was found or none could be determined.
C7_FetchedFrequencyKept ==
    (conv.kind = "returned" /\ ~HasExtra(pkgIn, "update_frequency")) =>
        conv.pkg.update_frequency
            = (IF Truthy(conv.extracted) THEN conv.fetched ELSE Val("unknown"))

NoDuplicateIds(gs) ==
    \A i, j \in 1..Len(gs) : i # j => gs[i].id # gs[j].id

ItemsOf(groups) == IF groups.t = "absent" THEN <<>> ELSE groups.items

IsPrefix(a, b) == Len(a) <= Len(b) /\ SubSeq(b, 1, Len(a)) = a

\* what C8 says of one application, apart from duplicates
DefaultGroupApplied(dgd, pre, now) ==
    /\ now.category = Val(dgd[1].id)
    /\ now.groups.t = "list"
    /\ IsPrefix(ItemsOf(pre.groups), now.groups.items)
    /\ \A i \in 1..Len(dgd) : dgd[i].id \in GroupIds(now.groups.items)
    /\ \A i \in (Len(ItemsOf(pre.groups)) + 1)..Len(now.groups.items) :
          /\ now.groups.items[i].id \notin GroupIds(ItemsOf(pre.groups))
          /\ \E k \in 1..Len(dgd) : dgd[k] = now.groups.items[i]
    /\ sgCalls = MaxCalls => now = set_default_group(sgConfig, pre).pkg

DefaultGroupsOf(hc) ==
    IF hc.o.default_group_dicts.t = "list" THEN hc.o.default_group_dicts.items ELSE <<>>

\* C8 (as stated): set_default_group with a non-empty 'default_group_dicts'
\* sets 'category' to the first default group's id and appends the default
\* groups not already there, keeping the pre-existing ones in order; every
\* default id then occurs in 'groups', no id occurs twice when the
\* pre-existing groups had no duplicates, and a second application changes
\* nothing.  With no or an empty list, 'category' and 'groups' stay.
C8_Original ==
    sgCalls >= 1 =>
        LET dgd == DefaultGroupsOf(sgConfig) IN
        IF dgd # <<>>
        THEN /\ DefaultGroupApplied(dgd, sgPre, sgPkg)
             /\ NoDuplicateIds(ItemsOf(sgPre.groups))
                   => NoDuplicateIds(sgPkg.groups.items)
        ELSE sgPkg.category = sgPre.category /\ sgPkg.groups = sgPre.groups

\* C8 (amended): as above, but no id occurs twice when neither the
\* pre-existing groups nor 'default_group_dicts' hold an id twice.
C8_DefaultGroup ==
    sgCalls >= 1 =>
        LET dgd == DefaultGroupsOf(sgConfig) IN
        IF dgd # <<>>
        THEN /\ DefaultGroupApplied(dgd, sgPre, sgPkg)
             /\ (NoDuplicateIds(ItemsOf(sgPre.groups)) /\ NoDuplicateIds(dgd))
                   => NoDuplicateIds(sgPkg.groups.items)
        ELSE sgPkg.category = sgPre.category /\ sgPkg.groups = sgPre.groups

C8_Witness ==
    /\ sgCalls = MaxCalls
    /\ DefaultGroupsOf(sgConfig) = <<GroupDict(Group1), GroupDict(Group2)>>
    /\ ItemsOf(sgPre.groups) = <<[id |-> "g3", name |-> "n3"], GroupDict(Group2)>>
    /\ sgPkg.groups.items
          = <<[id |-> "g3", name |-> "n3"], GroupDict(Group2), GroupDict(Group1)>>
    /\ sgPkg.category = Val("g1")

\* C9: without a 'full_metadata_url' extra, the returned record's
\* 'full_metadata_url' is the URL extracted from the description if one is
\* found, otherwise the configured default, and the landingPage only when
\* neither produced a URL; with the extra, no step sets the field.
C9_UrlPrecedence ==
    conv.kind = "returned" =>
        IF HasExtra(pkgIn, "full_metadata_url")
        THEN conv.pkg.full_metadata_url = pkgIn.full_metadata_url
        ELSE conv.pkg.full_metadata_url
                = (IF Truthy(conv.extracted) THEN conv.extracted
                   ELSE IF Truthy(conv.harvest_config.o.default_full_metadata_url)
                   THEN conv.harvest_config.o.default_full_metadata_url
                   ELSE dcat.landingPage)
====
